---- MODULE Spec2Model ----
(***************************************************************************)
(* Model of src/app.py: the transformer-oil evaluation service.            *)
(*                                                                         *)
(* Conventions of the model                                                *)
(*  - A text that the code processes character by character (strip,       *)
(*    lower, replace, float) is a sequence of one-character tokens.  The   *)
(*    Cyrillic literals of the source are transliterated letter by letter  *)
(*    (one token per Cyrillic letter, e.g. "ch", "ya", "soft" for the      *)
(*    soft sign), an upper-case letter is the token in capitals.           *)
(*  - Fixed texts that the code only copies (zone names, statuses, row     *)
(*    names, recommendation and rationale texts) are plain strings,        *)
(*    transliterated or translated.                                        *)
(*  - A measured value and a threshold are integers in hundredths          *)
(*    (0.08 is 8, 140.0 is 14000); the decimal literals of the model have  *)
(*    at most two fractional digits, for which float comparison agrees     *)
(*    with comparison of the decimals.                                     *)
(*  - A penalty is in tenths (0.5 is 5), a weight in hundredths (0.25 is   *)
(*    25) and the composite index in tenths (25.0 is 250).                 *)
(*  - None is the token sequence <<"<None>">>, which no text equals.       *)
(***************************************************************************)
EXTENDS Integers, Sequences, FiniteSets, TLC

VARIABLES PROFILES, session, request, response, lastGood, call, ret

vars == <<PROFILES, session, request, response, lastGood, call, ret>>

(***************************************************************************)
(* Bounds of the model.                                                    *)
(***************************************************************************)
\* most whitespace characters put on each side of a submitted text
MaxPad == 1
\* numeric values are sampled up to this many hundredths around a threshold
Eps == 2

(***************************************************************************)
(* Python text primitives.                                                 *)
(***************************************************************************)
None == <<"<None>">>

\* Python's `x or d` for a text or None: None and "" are falsy
Or(x, d) == IF x = None \/ x = <<>> THEN d ELSE x

Whitespace == {" ", "\t"}

RECURSIVE lstrip(_)
lstrip(s) == IF s # <<>> /\ Head(s) \in Whitespace THEN lstrip(Tail(s)) ELSE s

RECURSIVE rstrip(_)
rstrip(s) ==
    IF s # <<>> /\ s[Len(s)] \in Whitespace
    THEN rstrip(SubSeq(s, 1, Len(s) - 1))
    ELSE s

strip(s) == rstrip(lstrip(s))

LowerLetters ==
    <<"a", "b", "ch", "d", "e", "i", "j", "k", "l", "n", "o", "r", "s",
      "t", "ts", "y", "ya", "z", "soft">>

UpperLetters ==
    <<"A", "B", "CH", "D", "E", "I", "J", "K", "L", "N", "O", "R", "S",
      "T", "TS", "Y", "YA", "Z", "SOFT">>

LowerChar(c) ==
    IF \E i \in 1..Len(UpperLetters) : UpperLetters[i] = c
    THEN LowerLetters[CHOOSE i \in 1..Len(UpperLetters) : UpperLetters[i] = c]
    ELSE c

UpperChar(c) ==
    IF \E i \in 1..Len(LowerLetters) : LowerLetters[i] = c
    THEN UpperLetters[CHOOSE i \in 1..Len(LowerLetters) : LowerLetters[i] = c]
    ELSE c

lower(s) == [i \in 1..Len(s) |-> LowerChar(s[i])]

upper(s) == [i \in 1..Len(s) |-> UpperChar(s[i])]

capitalize(s) == [i \in 1..Len(s) |-> IF i = 1 THEN UpperChar(s[i]) ELSE s[i]]

\* str.replace for one-character old and new
replace(s, old, new) == [i \in 1..Len(s) |-> IF s[i] = old THEN new ELSE s[i]]

Digits == <<"0", "1", "2", "3", "4", "5", "6", "7", "8", "9">>

IsDigit(c) == \E i \in 1..10 : Digits[i] = c

DigitVal(c) == (CHOOSE i \in 1..10 : Digits[i] = c) - 1

RECURSIVE DigitsVal(_)
DigitsVal(s) ==
    IF s = <<>> THEN 0
    ELSE 10 * DigitsVal(SubSeq(s, 1, Len(s) - 1)) + DigitVal(s[Len(s)])

\* the text of a number without its sign
Unsigned(s) == IF s # <<>> /\ Head(s) \in {"-", "+"} THEN Tail(s) ELSE s

DotAt(s) == IF \E i \in 1..Len(s) : s[i] = "."
            THEN CHOOSE i \in 1..Len(s) : s[i] = "."
            ELSE Len(s) + 1

\* float(raw) succeeds: surrounding whitespace is ignored, then an optional
\* sign, digits with at most one point and at least one digit.  (float also
\* accepts exponents, underscores, inf and nan; the texts of the model do
\* not use them.)
FloatOk(raw) ==
    LET u == Unsigned(strip(raw)) IN
    /\ \A i \in 1..Len(u) : IsDigit(u[i]) \/ u[i] = "."
    /\ Cardinality({i \in 1..Len(u) : u[i] = "."}) <= 1
    /\ \E i \in 1..Len(u) : IsDigit(u[i])

\* the value in hundredths of the digits ip before and fp after the point;
\* the texts of the model have at most two fractional digits
Hundredths(ip, fp) ==
    100 * DigitsVal(ip) +
    (IF Len(fp) = 0 THEN 0
     ELSE IF Len(fp) = 1 THEN 10 * DigitsVal(fp)
     ELSE DigitsVal(SubSeq(fp, 1, 2)))

Magnitude(u, d) == Hundredths(SubSeq(u, 1, d - 1), SubSeq(u, d + 1, Len(u)))

Signed(t, mag) == IF t # <<>> /\ Head(t) = "-" THEN 0 - mag ELSE mag

FloatOfStripped(t, u) == Signed(t, Magnitude(u, DotAt(u)))

\* float(raw) in hundredths
FloatVal(raw) == FloatOfStripped(strip(raw), Unsigned(strip(raw)))

(***************************************************************************)
(* Thresholds, weights and profiles (src/app.py 39-98).                    *)
(***************************************************************************)
ThresholdsMax(w, c) == [warn_max |-> w, crit_max |-> c]

ThresholdsMin(w, c) == [warn_min |-> w, crit_min |-> c]

TH_6_35 ==
    [bdv_kv |-> ThresholdsMin(3000, 2500),
     flash_c |-> ThresholdsMin(14000, 13500),
     moisture_ppm |-> ThresholdsMax(2000, 3000),
     acid_mgkoh_g |-> ThresholdsMax(10, 20),
     tgdelta_pct |-> ThresholdsMax(150, 250)]

\* mutant of TH_110: the thresholds of the 6-35 kV profile copied unchanged
TH_110_Copied == TH_6_35

TH_110 ==
    [bdv_kv |-> ThresholdsMin(4000, 3500),
     flash_c |-> ThresholdsMin(14000, 13500),
     moisture_ppm |-> ThresholdsMax(1500, 2500),
     acid_mgkoh_g |-> ThresholdsMax(8, 15),
     tgdelta_pct |-> ThresholdsMax(100, 200)]

TH_220_330 ==
    [bdv_kv |-> ThresholdsMin(5000, 4500),
     flash_c |-> ThresholdsMin(14000, 13500),
     moisture_ppm |-> ThresholdsMax(1000, 2000),
     acid_mgkoh_g |-> ThresholdsMax(5, 10),
     tgdelta_pct |-> ThresholdsMax(80, 150)]

WEIGHTS_BASE ==
    [moisture_ppm |-> 25,
     bdv_kv |-> 25,
     acid_mgkoh_g |-> 15,
     tgdelta_pct |-> 15,
     flash_c |-> 10,
     impurities |-> 5,
     water_extract |-> 5]

\* the PROFILES table as the module builds it; its keys are texts
PWR_6_35 == <<"P", "W", "R", "_", "6", "_", "3", "5">>

PWR_110 == <<"P", "W", "R", "_", "1", "1", "0">>

PWR_220_330 == <<"P", "W", "R", "_", "2", "2", "0", "_", "3", "3", "0">>

ProfilesInit ==
    PWR_6_35 :>
        [name |-> "Silovoi transformator 6-35 kV",
         source |-> "IEC 60422 (simplified model for MVP), industry practice",
         TH |-> TH_6_35,
         WEIGHTS |-> WEIGHTS_BASE] @@
    PWR_110 :>
        [name |-> "Silovoi transformator 110 kV",
         source |-> "IEC 60422 (simplified model for MVP), industry practice",
         TH |-> TH_110,
         WEIGHTS |-> WEIGHTS_BASE] @@
    PWR_220_330 :>
        [name |-> "Silovoi transformator 220-330 kV",
         source |-> "IEC 60422 (simplified model for MVP), industry practice",
         TH |-> TH_220_330,
         WEIGHTS |-> WEIGHTS_BASE]

(***************************************************************************)
(* Zones (src/app.py 105-136).  A zone result is <<zone, penalty>>.        *)
(***************************************************************************)
Norma == "Norma"

Preduprezhdenie == "Preduprezhdenie"

Kritichno == "Kritichno"

\* mutant of zone_max: strict comparisons, a boundary value falls in the worse zone
zone_max_Strict(value, t) ==
    IF value < t.warn_max THEN <<Norma, 0>>
    ELSE IF value < t.crit_max THEN <<Preduprezhdenie, 5>>
    ELSE <<Kritichno, 10>>

zone_max(value, t) ==
    IF value <= t.warn_max THEN <<Norma, 0>>
    ELSE IF value <= t.crit_max THEN <<Preduprezhdenie, 5>>
    ELSE <<Kritichno, 10>>

zone_min(value, t) ==
    IF value >= t.warn_min THEN <<Norma, 0>>
    ELSE IF value >= t.crit_min THEN <<Preduprezhdenie, 5>>
    ELSE <<Kritichno, 10>>

\* the literals matched by the categorical classifiers
NET == <<"n", "e", "t">>

SLEDY == <<"s", "l", "e", "d", "y">>

NEZNACHITELNO ==
    <<"n", "e", "z", "n", "a", "ch", "i", "t", "e", "l", "soft", "n", "o">>

NEITRALNAYA == <<"n", "e", "j", "t", "r", "a", "l", "soft", "n", "a", "ya">>

SLABOKISLAYA == <<"s", "l", "a", "b", "o", "k", "i", "s", "l", "a", "ya">>

SLABOKISL_DOT == <<"s", "l", "a", "b", "o", "k", "i", "s", "l", ".">>

SLABOKISLAYA_REAKTSIYA ==
    SLABOKISLAYA \o <<" ", "r", "e", "a", "k", "ts", "i", "ya">>

\* mutant of zone_impurities: a missing or empty value is read as "net"
zone_impurities_FailOpen(value) ==
    LET v == lower(strip(Or(value, NET))) IN
    IF v = NET THEN <<Norma, 0>>
    ELSE IF v \in {SLEDY, NEZNACHITELNO} THEN <<Preduprezhdenie, 5>>
    ELSE <<Kritichno, 10>>

zone_impurities(value) ==
    LET v == lower(strip(Or(value, <<>>))) IN
    IF v = NET THEN <<Norma, 0>>
    ELSE IF v \in {SLEDY, NEZNACHITELNO} THEN <<Preduprezhdenie, 5>>
    ELSE <<Kritichno, 10>>

zone_water_extract(value) ==
    LET v == lower(strip(Or(value, <<>>))) IN
    IF v = NEITRALNAYA THEN <<Norma, 0>>
    ELSE IF v \in {SLABOKISLAYA, SLABOKISL_DOT, SLABOKISLAYA_REAKTSIYA}
         THEN <<Preduprezhdenie, 5>>
    ELSE <<Kritichno, 10>>

(***************************************************************************)
(* Index, status and recommendations (src/app.py 139-190).                 *)
(***************************************************************************)
RECURSIVE SumOver(_, _)
SumOver(f, S) ==
    IF S = {} THEN 0
    ELSE LET k == CHOOSE x \in S : TRUE IN f[k] + SumOver(f, S \ {k})

\* round(num / den) to the nearest integer, ties to even, for num >= 0
RoundDiv(num, den) ==
    LET q == num \div den
        r == num % den
    IN IF 2 * r < den THEN q
       ELSE IF 2 * r > den THEN q + 1
       ELSE IF q % 2 = 0 THEN q ELSE q + 1

\* scores in tenths, weights in hundredths, the result in tenths of a point
compute_index(scores, weights) ==
    LET matched == {k \in DOMAIN weights : k \in DOMAIN scores}
        total == SumOver([k \in matched |-> scores[k] * weights[k]], matched)
        wsum == SumOver([k \in matched |-> weights[k]], matched)
    IN IF wsum = 0 THEN 0 ELSE RoundDiv(100 * total, wsum)

KRITICHESKOE == "KRITICHESKOE"

POGRANICHNOE == "POGRANICHNOE"

NORMA == "NORMA"

\* mutant of overall_status: the critical override is left out
overall_status_IndexOnly(index, any_critical) ==
    IF index >= 600 THEN KRITICHESKOE
    ELSE IF index >= 250 THEN POGRANICHNOE
    ELSE NORMA

\* mutant of overall_status: Critical from index 50
overall_status_From50(index, any_critical) ==
    IF any_critical \/ index >= 500 THEN KRITICHESKOE
    ELSE IF index >= 250 THEN POGRANICHNOE
    ELSE NORMA

overall_status(index, any_critical) ==
    IF any_critical \/ index >= 600 THEN KRITICHESKOE
    ELSE IF index >= 250 THEN POGRANICHNOE
    ELSE NORMA

NameMoisture == "Vlagosoderzhanie (ppm)"

NameBdv == "Probivnoe napryazhenie (kV)"

NameAcid == "Kislotnoe chislo (mg KOH/g)"

NameTg == "tg delta pri 90 C (%)"

NameFlash == "Temperatura vspyshki (C)"

NameImpurities == "Mehanicheskie primesi"

NameWaterExtract == "Reaktsiya vodnoi vytyazhki"

RecDry == "Urgently dry/degas and filter the oil (priority: high)."

RecSealing == "Check the sealing of the transformer and the breather/adsorbent."

RecRetest == "Repeat the breakdown voltage measurement after treating the oil."

RecFilter == "Filter out the mechanical impurities; assess the source of contamination."

RecRegenerate == "Consider regeneration or replacement of the oil if ageing is confirmed."

RecResample == "Control sample recommended within 2-4 weeks."

RecFlash == "Check the fire safety characteristics of the oil; consider replacement."

RecFallback == "Parameters within norm. Continue operation, perform scheduled control."

ZoneOf(rows, name) ==
    rows[CHOOSE i \in 1..Len(rows) : rows[i].name = name].zone

build_recommendations(rows) ==
    LET moist == ZoneOf(rows, NameMoisture)
        bdv == ZoneOf(rows, NameBdv)
        acid == ZoneOf(rows, NameAcid)
        tg == ZoneOf(rows, NameTg)
        imp == ZoneOf(rows, NameImpurities)
        wext == ZoneOf(rows, NameWaterExtract)
        flash == ZoneOf(rows, NameFlash)
        bad == {Preduprezhdenie, Kritichno}
        rec1 == IF moist = Kritichno \/ bdv = Kritichno
                THEN <<RecDry, RecSealing, RecRetest>> ELSE <<>>
        rec2 == IF imp = Kritichno THEN <<RecFilter>> ELSE <<>>
        rec3 == IF acid \in bad \/ tg \in bad \/ wext \in bad
                THEN <<RecRegenerate, RecResample>> ELSE <<>>
        rec4 == IF flash \in bad THEN <<RecFlash>> ELSE <<>>
        rec == rec1 \o rec2 \o rec3 \o rec4
    IN IF rec = <<>> THEN <<RecFallback>> ELSE rec

(***************************************************************************)
(* Excel export (src/app.py 197-282): the cells that carry data.           *)
(***************************************************************************)
\* a missing evaluation result (session.get returns None)
NoneDict == [none |-> TRUE]

NE_UKAZAN == <<"n", "e", " ", "u", "k", "a", "z", "a", "n">>

NE_UKAZANA == NE_UKAZAN \o <<"a">>

excel_from_result(result) ==
    [title |-> "Zaklyuchenie",
     B3 |-> IF result.profile_name = "" THEN "ne ukazan" ELSE result.profile_name,
     B4 |-> IF result.profile_source = "" THEN "ne ukazan" ELSE result.profile_source,
     B5 |-> Or(result.transformer_id, NE_UKAZAN),
     B6 |-> Or(result.sample_date, NE_UKAZANA),
     B7 |-> <<result.index_score, "/ 100">>,
     B8 |-> result.status,
     table |-> [i \in 1..Len(result.rows) |->
                  [A |-> result.rows[i].name,
                   B |-> <<result.rows[i].value, result.rows[i].unit>>,
                   C |-> result.rows[i].zone,
                   D |-> result.rows[i].comment]],
     recommendations |-> [i \in 1..Len(result.recommendations) |->
                            <<i, result.recommendations[i]>>]]

(***************************************************************************)
(* Helpers and routes (src/app.py 289-461).                                *)
(***************************************************************************)
\* request.form.get(name)
form_get(form, name) == IF name \in DOMAIN form THEN form[name] ELSE None

\* the float of the text raw of the field, or the ValueError it raises
ParseRaw(field_name, raw) ==
    IF raw = <<>>
    THEN [ok |-> FALSE, value |-> 0,
          error |-> [message |-> "field is empty", field |-> field_name, raw |-> raw]]
    ELSE IF FloatOk(raw)
    THEN [ok |-> TRUE, value |-> FloatVal(raw),
          error |-> [message |-> "", field |-> field_name, raw |-> raw]]
    ELSE [ok |-> FALSE, value |-> 0,
          error |-> [message |-> "field must be a number", field |-> field_name,
                     raw |-> raw]]

parse_float_field(form, field_name) ==
    ParseRaw(field_name,
             strip(replace(Or(form_get(form, field_name), <<>>), ",", ".")))

\* mutant of ResolveProfile: the default is the first profile of the table
ResolveProfile_FirstProfile(profile_id) ==
    IF profile_id \in DOMAIN PROFILES THEN PROFILES[profile_id] ELSE PROFILES[PWR_6_35]

\* PROFILES.get(profile_id) or PROFILES["PWR_110"]; a profile is never falsy
ResolveProfile(profile_id) ==
    IF profile_id \in DOMAIN PROFILES THEN PROFILES[profile_id] ELSE PROFILES[PWR_110]

\* the "profile_id" entry of the result
StoredProfileId(profile_id) == Or(profile_id, PWR_110)

Row(name, value, unit, zone, comment) ==
    [name |-> name, value |-> value, unit |-> unit, zone |-> zone, comment |-> comment]

NumericFields == <<"moisture_ppm", "bdv_kv", "acid_mgkoh_g", "tgdelta_pct", "flash_c">>

\* evaluate, part 4: index, status, recommendations and the result dict
evaluate_result(profile_id, profile, transformer_id, sample_date, rows, index_score, any_critical) ==
    [profile_id |-> StoredProfileId(profile_id),
     profile_name |-> profile.name,
     profile_source |-> profile.source,
     transformer_id |-> transformer_id,
     sample_date |-> sample_date,
     status |-> overall_status(index_score, any_critical),
     index_score |-> index_score,
     rows |-> rows,
     recommendations |-> build_recommendations(rows)]

\* evaluate, part 3: the rows, the scores and any_critical of the zones z
evaluate_rows(profile_id, profile, transformer_id, sample_date, v, impurities, water_extract, z) ==
    evaluate_result(
        profile_id, profile, transformer_id, sample_date,
        <<Row(NameMoisture, v[1], "ppm", z[1][1],
              "Moisture lowers the dielectric strength and speeds up ageing."),
          Row(NameBdv, v[2], "kV", z[2][1],
              "A low breakdown voltage raises the risk of insulation breakdown."),
          Row(NameAcid, v[3], "mg KOH/g", z[3][1],
              "A rising acid number reflects ageing and oxidation products."),
          Row(NameTg, v[4], "%", z[4][1],
              "A raised tg delta points to dielectric losses and contamination."),
          Row(NameFlash, v[5], "C", z[5][1],
              "A lower flash point worsens fire safety."),
          Row(NameImpurities, impurities, "", z[6][1],
              "Impurities lower the dielectric strength and speed up ageing."),
          Row(NameWaterExtract, water_extract, "", z[7][1],
              "An acid reaction may point to acid ageing products.")>>,
        compute_index(
            [moisture_ppm |-> z[1][2], bdv_kv |-> z[2][2], acid_mgkoh_g |-> z[3][2],
             tgdelta_pct |-> z[4][2], flash_c |-> z[5][2], impurities |-> z[6][2],
             water_extract |-> z[7][2]],
            profile.WEIGHTS),
        \E i \in 1..7 : z[i][1] = Kritichno)

\* evaluate, part 2: the zone of every parameter, in the order of the code;
\* v holds moisture_ppm, bdv_kv, acid, tg and flash
evaluate_zones(profile_id, profile, transformer_id, sample_date, v, impurities, water_extract) ==
    evaluate_rows(
        profile_id, profile, transformer_id, sample_date, v, impurities,
        water_extract,
        <<zone_max(v[1], profile.TH.moisture_ppm),
          zone_min(v[2], profile.TH.bdv_kv),
          zone_max(v[3], profile.TH.acid_mgkoh_g),
          zone_max(v[4], profile.TH.tgdelta_pct),
          zone_min(v[5], profile.TH.flash_c),
          zone_impurities(impurities),
          zone_water_extract(water_extract)>>)

\* the first ValueError of the try block, if a field fails to parse
evaluate_parsed(form, profile_id, parsed) ==
    IF \E i \in 1..Len(parsed) : ~parsed[i].ok
    THEN [ok |-> FALSE,
          error |-> parsed[CHOOSE i \in 1..Len(parsed) :
                             /\ ~parsed[i].ok
                             /\ \A j \in 1..(i - 1) : parsed[j].ok].error,
          result |-> NoneDict]
    ELSE [ok |-> TRUE,
          error |-> parsed[1].error,
          result |->
            evaluate_zones(
                profile_id,
                ResolveProfile(profile_id),
                strip(Or(form_get(form, "transformer_id"), <<>>)),
                strip(Or(form_get(form, "sample_date"), <<>>)),
                [i \in 1..Len(parsed) |-> parsed[i].value],
                strip(Or(form_get(form, "impurities"), NET)),
                strip(Or(form_get(form, "water_extract"), NEITRALNAYA)))]

\* evaluate, part 1: the profile and the fields of the form: [ok, error, result]
evaluate_body(form) ==
    evaluate_parsed(
        form,
        strip(Or(form_get(form, "profile_id"), <<>>)),
        [i \in 1..Len(NumericFields) |-> parse_float_field(form, NumericFields[i])])

\* session[key] = value
session_set(sess, key, value) ==
    [k \in DOMAIN sess \cup {key} |-> IF k = key THEN value ELSE sess[k]]

\* session.get(key)
session_get(sess, key) == IF key \in DOMAIN sess THEN sess[key] ELSE NoneDict

\* mutant of evaluate_respond: a failed evaluation drops the stored result
evaluate_respond_DropsOnError(b, sess) ==
    IF ~b.ok
    THEN [response |-> [op |-> "evaluate", code |-> 400, body |-> b.error],
          session |-> [k \in DOMAIN sess \ {"last_result"} |-> sess[k]],
          result |-> NoneDict]
    ELSE [response |->
            [op |-> "evaluate", code |-> 200,
             body |-> [template |-> "result.html",
                       profile_name |-> b.result.profile_name,
                       transformer_id |-> b.result.transformer_id,
                       sample_date |-> b.result.sample_date,
                       status |-> b.result.status,
                       index_score |-> b.result.index_score,
                       rows |-> b.result.rows,
                       recommendations |-> b.result.recommendations]],
          session |-> [k \in DOMAIN sess \cup {"last_result"} |->
                         IF k = "last_result" THEN b.result ELSE sess[k]],
          result |-> b.result]

\* the end of evaluate: the 400 of a ValueError, or the result stored in the
\* session and rendered
evaluate_respond(b, sess) ==
    IF ~b.ok
    THEN [response |-> [op |-> "evaluate", code |-> 400, body |-> b.error],
          session |-> sess,
          result |-> NoneDict]
    ELSE [response |->
            [op |-> "evaluate", code |-> 200,
             body |-> [template |-> "result.html",
                       profile_name |-> b.result.profile_name,
                       transformer_id |-> b.result.transformer_id,
                       sample_date |-> b.result.sample_date,
                       status |-> b.result.status,
                       index_score |-> b.result.index_score,
                       rows |-> b.result.rows,
                       recommendations |-> b.result.recommendations]],
          session |-> session_set(sess, "last_result", b.result),
          result |-> b.result]

\* POST /evaluate: the response, the session it leaves and the result dict
evaluate(form, sess) == evaluate_respond(evaluate_body(form), sess)

\* `not result` for the session entry
Falsy(result) == result = NoneDict \/ DOMAIN result = {}

export_respond(result) ==
    IF Falsy(result)
    THEN [op |-> "export", code |-> 400,
          body |-> [message |-> "No data for export. Run the evaluation first."]]
    ELSE [op |-> "export", code |-> 200,
          body |-> [download_name |-> "zaklyuchenie_transformatornoe_maslo.xlsx",
                    file |-> excel_from_result(result)]]

\* GET /export/xlsx
export_xlsx(sess) == export_respond(session_get(sess, "last_result"))

(***************************************************************************)
(* Submitted texts.                                                        *)
(***************************************************************************)
\* up to MaxPad whitespace characters
PadSet == UNION {[1..n -> Whitespace] : n \in 0..MaxPad}

\* w with whitespace around it
Padded(w) == {l \o w \o r : l \in PadSet, r \in PadSet}

\* w with whitespace after it
RightPadded(w) == {w \o r : r \in PadSet}

\* w in lower case, capitalised and in upper case, with whitespace around it
Decorated(w) == UNION {Padded(c) : c \in {w, capitalize(w), upper(w)}}

\* texts that none of the classifiers recognises
EST == <<"e", "s", "t", "soft">>

KISLAYA == <<"k", "i", "s", "l", "a", "ya">>

UnknownWords ==
    {<<>>, EST, KISLAYA,
     <<"s", "l", "e", "d">>,
     NET \o <<".">>,
     NET \o <<" ">> \o NET,
     SLABOKISLAYA \o <<"\t", "r", "e", "a", "k", "ts", "i", "ya">>,
     SLABOKISLAYA \o <<" ", " ", "r", "e", "a", "k", "ts", "i", "ya">>}

ImpurityWords == {NET, SLEDY, NEZNACHITELNO}

WaterExtractWords ==
    {NEITRALNAYA, SLABOKISLAYA, SLABOKISL_DOT, SLABOKISLAYA_REAKTSIYA}

CategoricalTexts ==
    {None} \cup
    UNION {Decorated(w) : w \in ImpurityWords \cup WaterExtractWords \cup UnknownWords}

\* profile identifiers that are no key of PROFILES
PWR_35 == <<"P", "W", "R", "_", "3", "5">>

pwr_110 == <<"p", "w", "r", "_", "1", "1", "0">>

PWR_SPACE_110 == <<"P", "W", "R", " ", "1", "1", "0">>

RegisteredIds == {PWR_6_35, PWR_110, PWR_220_330}

ProfileIdTexts ==
    {None} \cup
    UNION {Padded(w) : w \in RegisteredIds \cup {<<>>, PWR_35, pwr_110, PWR_SPACE_110}}

Form(profile_id, transformer_id, sample_date, moisture, bdv, acid, tg, flash, impurities, water_extract) ==
    [profile_id |-> profile_id,
     transformer_id |-> transformer_id,
     sample_date |-> sample_date,
     moisture_ppm |-> moisture,
     bdv_kv |-> bdv,
     acid_mgkoh_g |-> acid,
     tgdelta_pct |-> tg,
     flash_c |-> flash,
     impurities |-> impurities,
     water_extract |-> water_extract]

T_1 == <<"T", "-", "1">>

DATE_1 == <<"2", "0", "2", "5", "-", "0", "1", "-", "1", "5">>

\* sample texts: every zone of every parameter occurs under every profile
MoistureTexts == {<<"1", "0">>, <<"2", "0">>, <<"2", "5">>, <<"3", "1">>}

BdvTexts == {<<"2", "0">>, <<"2", "5">>, <<"3", "7">>, <<"4", "7">>, <<"5", "0">>}

AcidTexts ==
    {<<"0", ",", "0", "5">>, <<"0", ".", "0", "9">>, <<"0", ".", "1", "2">>,
     <<".", "2", "1">>}

TgTexts == {<<"0", ".", "3">>, <<"1", ",", "5">>, <<"2", ".">>, <<"2", ".", "6">>}

FlashTexts == {<<"1", "4", "5">>, <<"1", "3", "7">>, <<"1", "3", "0">>}

ImpurityTexts == {None, <<"S", "l", "e", "d", "y", " ">>, EST}

WaterExtractTexts == {<<>>, SLABOKISL_DOT, KISLAYA}

\* the sample of scenario C
ScenarioC(profile_id) ==
    Form(profile_id, None, None, <<"2", "0">>, <<"2", "5">>, <<"0", ".", "0", "5">>,
         <<"0", ".", "3">>, <<"1", "4", "5">>, NET, NEITRALNAYA)

\* the samples submitted with every profile identifier
FewSamples(profile_id) ==
    {ScenarioC(profile_id),
     Form(profile_id, T_1, DATE_1, <<"1", "0">>, <<"5", "0">>, <<"0", ".", "0", "5">>,
          <<"0", ".", "3">>, <<"1", "4", "5">>, None, None),
     Form(profile_id, T_1, None, <<"2", "0">>, <<"4", "7">>, <<"0", ".", "0", "9">>,
          <<"1", ".", "5">>, <<"1", "3", "7">>, SLEDY, SLABOKISLAYA)}

AllSamples(profile_id) ==
    {Form(profile_id, None, None, m, b, a, t, f, i, w) :
        m \in MoistureTexts, b \in BdvTexts, a \in AcidTexts, t \in TgTexts,
        f \in FlashTexts, i \in ImpurityTexts, w \in WaterExtractTexts}

EvalForms ==
    UNION {AllSamples(p) : p \in RegisteredIds} \cup
    UNION {FewSamples(p) : p \in ProfileIdTexts}

\* the forms of the session machine: good and bad texts in every numeric field
SessionForms ==
    {Form(p, T_1, None, m, b, a, t, f, NET, None) :
        p \in {None, PWR_220_330},
        m \in {<<"1", "0">>, <<"3", "1">>, <<>>},
        b \in RightPadded(<<"4", "5">>) \cup {<<"4", "5", "k", "V">>},
        a \in {<<"0", ",", "0", "5">>, <<"1", ".", "5", ".", "2">>},
        t \in {<<"0", ".", "3">>, None},
        f \in {<<"1", "4", "5">>, <<"-">>}}

(***************************************************************************)
(* The session machine: evaluate and export requests of one session.       *)
(***************************************************************************)
EmptySession == <<>>

NoForm == [none |-> TRUE]

NoRequest == [op |-> "none", form |-> NoForm]

NoResponse == [op |-> "none", code |-> 0, body |-> [none |-> TRUE]]

NoCall == [fn |-> "none"]

NoRet == <<>>

Init ==
    /\ PROFILES = ProfilesInit
    /\ session = EmptySession
    /\ request = NoRequest
    /\ response = NoResponse
    /\ lastGood = NoneDict
    /\ call = NoCall
    /\ ret = NoRet

\* the state after a POST /evaluate that ended as out; lastGood records the
\* result of the last evaluation that succeeded
Handled(form, out) ==
    /\ request' = [op |-> "evaluate", form |-> form]
    /\ response' = out.response
    /\ session' = out.session
    /\ lastGood' = IF out.response.code = 200 THEN out.result ELSE lastGood
    /\ UNCHANGED <<PROFILES, call, ret>>

Handle(form) == Handled(form, evaluate(form, session))

Evaluate == \E form \in SessionForms : Handle(form)

Export ==
    /\ request' = [op |-> "export", form |-> NoForm]
    /\ response' = export_xlsx(session)
    /\ UNCHANGED <<PROFILES, session, lastGood, call, ret>>

Next == Evaluate \/ Export

Spec == Init /\ [][Next]_vars

(***************************************************************************)
(* One evaluation in a fresh session, over the sample forms.               *)
(***************************************************************************)
InitEval ==
    /\ PROFILES = ProfilesInit
    /\ session = EmptySession
    /\ request \in {[op |-> "evaluate", form |-> f] : f \in EvalForms}
    /\ response = NoResponse
    /\ lastGood = NoneDict
    /\ call = NoCall
    /\ ret = NoRet

EvaluatePending ==
    /\ response = NoResponse
    /\ request.op = "evaluate"
    /\ Handle(request.form)

NextEval == EvaluatePending

SpecEval == InitEval /\ [][NextEval]_vars

(***************************************************************************)
(* The pure functions, each applied to inputs drawn by the initial state.  *)
(***************************************************************************)
Zones == {Norma, Preduprezhdenie, Kritichno}

MaxKeys == {"moisture_ppm", "acid_mgkoh_g", "tgdelta_pct"}

MinKeys == {"bdv_kv", "flash_c"}

Around(x) == {x + d : d \in (0 - Eps)..Eps}

\* the values within Eps hundredths of a threshold that some profile sets for k
MaxValues(k) ==
    UNION {Around(ProfilesInit[q].TH[k].warn_max) \cup
           Around(ProfilesInit[q].TH[k].crit_max) : q \in RegisteredIds}

MinValues(k) ==
    UNION {Around(ProfilesInit[q].TH[k].warn_min) \cup
           Around(ProfilesInit[q].TH[k].crit_min) : q \in RegisteredIds}

ZoneMaxCalls ==
    UNION {{[fn |-> "zone_max", profile |-> p, key |-> k, value |-> v] :
              p \in RegisteredIds, v \in MaxValues(k)} : k \in MaxKeys}

ZoneMinCalls ==
    UNION {{[fn |-> "zone_min", profile |-> p, key |-> k, value |-> v] :
              p \in RegisteredIds, v \in MinValues(k)} : k \in MinKeys}

CategoricalCalls ==
    {[fn |-> f, value |-> v] :
        f \in {"zone_impurities", "zone_water_extract"}, v \in CategoricalTexts}

RowNames ==
    <<NameMoisture, NameBdv, NameAcid, NameTg, NameFlash, NameImpurities,
      NameWaterExtract>>

RowsOfZones(z) == [i \in 1..Len(RowNames) |-> Row(RowNames[i], 0, "", z[i], "")]

RecommendationCalls ==
    {[fn |-> "build_recommendations", rows |-> RowsOfZones(z)] :
        z \in [1..Len(RowNames) -> Zones]}

InitPure ==
    /\ PROFILES = ProfilesInit
    /\ session = EmptySession
    /\ request = NoRequest
    /\ response = NoResponse
    /\ lastGood = NoneDict
    /\ call \in ZoneMaxCalls \cup ZoneMinCalls \cup CategoricalCalls
                \cup RecommendationCalls
    /\ ret = NoRet

Return(value) ==
    /\ ret = NoRet
    /\ ret' = value
    /\ UNCHANGED <<PROFILES, session, request, response, lastGood, call>>

CallZoneMax ==
    /\ call.fn = "zone_max"
    /\ Return(zone_max(call.value, PROFILES[call.profile].TH[call.key]))

CallZoneMin ==
    /\ call.fn = "zone_min"
    /\ Return(zone_min(call.value, PROFILES[call.profile].TH[call.key]))

CallZoneImpurities ==
    /\ call.fn = "zone_impurities"
    /\ Return(zone_impurities(call.value))

CallZoneWaterExtract ==
    /\ call.fn = "zone_water_extract"
    /\ Return(zone_water_extract(call.value))

CallBuildRecommendations ==
    /\ call.fn = "build_recommendations"
    /\ Return(build_recommendations(call.rows))

NextPure ==
    \/ CallZoneMax
    \/ CallZoneMin
    \/ CallZoneImpurities
    \/ CallZoneWaterExtract
    \/ CallBuildRecommendations

SpecPure == InitPure /\ [][NextPure]_vars

(***************************************************************************)
(* Properties.                                                             *)
(***************************************************************************)
\* an evaluation has just succeeded; Result is what it stored
Evaluated == response.op = "evaluate" /\ response.code = 200

Result == session_get(session, "last_result")

ParamCount == Len(RowNames)

AnyCriticalRow(r) == \E i \in 1..ParamCount : r.rows[i].zone = Kritichno

\* a pure call has returned
Returned(fn) == call.fn = fn /\ ret # NoRet

\* C1: for every threshold rule of every profile, zone_max gives Normal/0.0 up
\* to and including warn_max, Warning/0.5 above warn_max up to and including
\* crit_max and Critical/1.0 above crit_max; zone_min gives Normal/0.0 from
\* warn_min up, Warning/0.5 from crit_min up to below warn_min and
\* Critical/1.0 below crit_min.
C1_BoundaryZones ==
    /\ Returned("zone_max") =>
         LET t == ProfilesInit[call.profile].TH[call.key]
             v == call.value
         IN /\ (v <= t.warn_max) => ret = <<Norma, 0>>
            /\ (t.warn_max < v /\ v <= t.crit_max) => ret = <<Preduprezhdenie, 5>>
            /\ (v > t.crit_max) => ret = <<Kritichno, 10>>
    /\ Returned("zone_min") =>
         LET t == ProfilesInit[call.profile].TH[call.key]
             v == call.value
         IN /\ (v >= t.warn_min) => ret = <<Norma, 0>>
            /\ (t.crit_min <= v /\ v < t.warn_min) => ret = <<Preduprezhdenie, 5>>
            /\ (v < t.crit_min) => ret = <<Kritichno, 10>>

\* zone_max was applied to a value equal to crit_max and answered Warning
C1_Witness ==
    /\ Returned("zone_max")
    /\ call.value = ProfilesInit[call.profile].TH[call.key].crit_max
    /\ ret = <<Preduprezhdenie, 5>>

\* C2: in every successful evaluation a Critical parameter makes the status
\* Critical whatever the index; without one the status is Critical from 60,
\* Borderline from 25 and Normal below 25.
C2_CriticalOverride ==
    Evaluated =>
        IF AnyCriticalRow(Result) THEN Result.status = KRITICHESKOE
        ELSE IF Result.index_score >= 600 THEN Result.status = KRITICHESKOE
        ELSE IF Result.index_score >= 250 THEN Result.status = POGRANICHNOE
        ELSE Result.status = NORMA

\* an evaluation with a Critical parameter and an index below 25 ended Critical
C2_Witness ==
    /\ Evaluated
    /\ AnyCriticalRow(Result)
    /\ Result.index_score < 250
    /\ Result.status = KRITICHESKOE

\* C3 (as claimed): build_recommendations returns the fallback recommendation
\* if and only if every one of the seven zones is Normal.
C3_FallbackIffAllNormal ==
    Returned("build_recommendations") =>
        (ret = <<RecFallback>> <=>
            \A i \in 1..ParamCount : call.rows[i].zone = Norma)

\* the forms that submit the sample of scenario C under the default profile
ScenarioCDefault == {ScenarioC(None), ScenarioC(<<>>), ScenarioC(PWR_110)}

\* C4 (as claimed): scenario C under the default profile classifies breakdown
\* voltage Critical with penalty 1.0 and every other parameter Normal, with
\* index 25.0 and status Critical.
C4_ScenarioC_AsClaimed ==
    (Evaluated /\ request.form \in ScenarioCDefault) =>
        /\ Result.rows[2].zone = Kritichno
        /\ zone_min(Result.rows[2].value, PROFILES[PWR_110].TH.bdv_kv) = <<Kritichno, 10>>
        /\ \A i \in 1..ParamCount \ {2} : Result.rows[i].zone = Norma
        /\ Result.index_score = 250
        /\ Result.status = KRITICHESKOE

\* C4 (amended): scenario C under the default profile classifies breakdown
\* voltage Critical with penalty 1.0, moisture Warning with penalty 0.5 and
\* every other parameter Normal, with index 37.5 and status Critical.
C4_ScenarioC ==
    (Evaluated /\ request.form \in ScenarioCDefault) =>
        /\ Result.rows[2].zone = Kritichno
        /\ zone_min(Result.rows[2].value, PROFILES[PWR_110].TH.bdv_kv) = <<Kritichno, 10>>
        /\ Result.rows[1].zone = Preduprezhdenie
        /\ zone_max(Result.rows[1].value, PROFILES[PWR_110].TH.moisture_ppm)
             = <<Preduprezhdenie, 5>>
        /\ \A i \in 1..ParamCount \ {1, 2} : Result.rows[i].zone = Norma
        /\ Result.index_score = 375
        /\ Result.status = KRITICHESKOE

\* scenario C was evaluated with an empty profile identifier
C4_Witness ==
    /\ Evaluated
    /\ request.form = ScenarioC(<<>>)
    /\ Result.rows[1].value = 2000
    /\ Result.rows[2].value = 2500

\* C5: zone_impurities answers Normal/0.0 only for "net", Warning/0.5 only for
\* "sledy" and "neznachitelno", zone_water_extract Normal/0.0 only for
\* "neitralnaya" and Warning/0.5 only for its three weakly-acid literals, each
\* in any case and with whitespace around it; every other text, the empty
\* text, a whitespace-only text and None are Critical/1.0.
C5_FailClosed ==
    /\ Returned("zone_impurities") =>
         ret = IF call.value \in Decorated(NET) THEN <<Norma, 0>>
               ELSE IF call.value \in Decorated(SLEDY) \cup Decorated(NEZNACHITELNO)
                    THEN <<Preduprezhdenie, 5>>
               ELSE <<Kritichno, 10>>
    /\ Returned("zone_water_extract") =>
         ret = IF call.value \in Decorated(NEITRALNAYA) THEN <<Norma, 0>>
               ELSE IF call.value \in Decorated(SLABOKISLAYA) \cup Decorated(SLABOKISL_DOT)
                                      \cup Decorated(SLABOKISLAYA_REAKTSIYA)
                    THEN <<Preduprezhdenie, 5>>
               ELSE <<Kritichno, 10>>

\* a classifier was applied to None, to the empty text or to whitespace and
\* answered Critical
C5_Witness ==
    /\ call.fn \in {"zone_impurities", "zone_water_extract"}
    /\ call.value \in {None} \cup Padded(<<>>)
    /\ ret = <<Kritichno, 10>>

\* the profile that the identifier of the request selects, by C6
ClaimedProfile ==
    LET id == strip(Or(request.form.profile_id, <<>>)) IN
    IF id \in RegisteredIds THEN ProfilesInit[id] ELSE ProfilesInit[PWR_110]

\* the zones and the index of r are those of its values under profile p
UsesProfile(r, p) ==
    /\ r.profile_name = p.name
    /\ r.profile_source = p.source
    /\ r.rows[1].zone = zone_max(r.rows[1].value, p.TH.moisture_ppm)[1]
    /\ r.rows[2].zone = zone_min(r.rows[2].value, p.TH.bdv_kv)[1]
    /\ r.rows[3].zone = zone_max(r.rows[3].value, p.TH.acid_mgkoh_g)[1]
    /\ r.rows[4].zone = zone_max(r.rows[4].value, p.TH.tgdelta_pct)[1]
    /\ r.rows[5].zone = zone_min(r.rows[5].value, p.TH.flash_c)[1]
    /\ r.index_score =
         compute_index(
            [moisture_ppm |-> zone_max(r.rows[1].value, p.TH.moisture_ppm)[2],
             bdv_kv |-> zone_min(r.rows[2].value, p.TH.bdv_kv)[2],
             acid_mgkoh_g |-> zone_max(r.rows[3].value, p.TH.acid_mgkoh_g)[2],
             tgdelta_pct |-> zone_max(r.rows[4].value, p.TH.tgdelta_pct)[2],
             flash_c |-> zone_min(r.rows[5].value, p.TH.flash_c)[2],
             impurities |-> zone_impurities(r.rows[6].value)[2],
             water_extract |-> zone_water_extract(r.rows[7].value)[2]],
            p.WEIGHTS)

\* C6: profile resolution never fails: a registered identifier selects its
\* profile, every other identifier (empty, whitespace-only, unknown) selects
\* the name, source, thresholds and weights of PWR_110, and the PROFILES table
\* stays as built.  An identifier is read with the whitespace around it
\* removed, as the handler reads it.
C6_ProfileResolution ==
    /\ PROFILES = ProfilesInit
    /\ response # NoResponse => Evaluated /\ UsesProfile(Result, ClaimedProfile)

\* an unknown identifier was evaluated with the thresholds of PWR_110, which
\* differ from those of the other profiles on the sample
C6_Witness ==
    /\ Evaluated
    /\ strip(Or(request.form.profile_id, <<>>)) = PWR_35
    /\ UsesProfile(Result, ProfilesInit[PWR_110])
    /\ ~UsesProfile(Result, ProfilesInit[PWR_6_35])
    /\ ~UsesProfile(Result, ProfilesInit[PWR_220_330])

\* C7: with the base weights, an evaluation whose seven parameters are all
\* Warning has index exactly 50.0 and status Borderline, under every
\* registered profile, all of which carry the base weights.
C7_AllWarning ==
    /\ \A p \in RegisteredIds :
         PROFILES[p].WEIGHTS =
            [moisture_ppm |-> 25, bdv_kv |-> 25, acid_mgkoh_g |-> 15,
             tgdelta_pct |-> 15, flash_c |-> 10, impurities |-> 5,
             water_extract |-> 5]
    /\ (Evaluated /\ \A i \in 1..ParamCount : Result.rows[i].zone = Preduprezhdenie) =>
         /\ Result.index_score = 500
         /\ Result.status = POGRANICHNOE

\* an all-Warning sample was evaluated under the strictest profile
C7_Witness ==
    /\ Evaluated
    /\ Result.profile_id = PWR_220_330
    /\ \A i \in 1..ParamCount : Result.rows[i].zone = Preduprezhdenie

\* C8 (as claimed): an evaluation whose recommendations are the fallback
\* message alone has status Normal.
C8_FallbackImpliesNormal ==
    (Evaluated /\ Result.recommendations = <<RecFallback>>) => Result.status = NORMA

\* C9 (as claimed): the stored profile_id is a key of PROFILES and names the
\* profile whose name the result carries.
C9_StoredProfileId ==
    Evaluated =>
        /\ Result.profile_id \in DOMAIN PROFILES
        /\ PROFILES[Result.profile_id].name = Result.profile_name

\* C10: the session holds the result of the most recent successful evaluate
\* (an evaluate answered 400 leaves it as it was); export answers 400 exactly
\* when no evaluate has succeeded, and otherwise exports that result.
C10_SessionExport ==
    /\ session_get(session, "last_result") = lastGood
    /\ (response.op = "evaluate" /\ response.code = 400) =>
         /\ request.op = "evaluate"
         /\ \E i \in 1..Len(NumericFields) :
              ~parse_float_field(request.form, NumericFields[i]).ok
    /\ response.op = "export" =>
         IF lastGood = NoneDict
         THEN response.code = 400
         ELSE /\ response.code = 200
              /\ response.body.file = excel_from_result(lastGood)

\* an evaluate failed after an earlier one had succeeded, and the session
\* still holds the earlier result
C10_Witness ==
    /\ response.op = "evaluate"
    /\ response.code = 400
    /\ lastGood # NoneDict
    /\ session_get(session, "last_result") = lastGood

====
